---- MODULE Spec2Model ----
(***************************************************************************)
(* A model of the minimal GLB (binary glTF 2.0) loader in                  *)
(* src/GLTFLoader.js: GLTFLoader.load, GLTFLoader.parse and the            *)
(* _buildScene pipeline (_buildBuffers, _buildAccessors, _buildMesh,       *)
(* _buildNode, child linking and the scene root).                          *)
(*                                                                         *)
(* The array buffer is a sequence of bytes; DataView.getUint32 and         *)
(* ArrayBuffer.slice are modelled on those bytes.  JavaScript's 0-based    *)
(* indices are kept in the data; a sequence s is read at index i through   *)
(* s[i + 1].  undefined / null numbers are the value Undefined, and an     *)
(* optional object is a sequence of length 0 or 1 (None, Some(x)).         *)
(***************************************************************************)
EXTENDS Integers, Sequences, FiniteSets, TLC

(***************************************************************************)
(* Bounds of the inputs.                                                   *)
(***************************************************************************)
MaxChunks == 2      \* chunks written into a container
MaxNodes == 2       \* node descriptors of a document
MaxSceneRefs == 2   \* node indices listed by the scene descriptor
MaxPrims == 2       \* primitives of a mesh
MaxCount == 2       \* accessor.count
BinLen == 8         \* bytes of the BIN payload

(***************************************************************************)
(* Program constants.                                                      *)
(***************************************************************************)
GLB_MAGIC == 1179937895        \* 0x46546C67, 'glTF'
GLB_VERSION == 2
GLB_HEADER_BYTES == 12
CHUNK_JSON == 1313821514       \* 0x4E4F534A
CHUNK_BIN == 5130562           \* 0x004E4942
MODE_TRIANGLES == 4
BLEND_OPACITY == 9             \* 0.9, opacities are counted in tenths
OPAQUE_ALPHA == 10             \* 1.0 in tenths

\* JavaScript's undefined / null where a number is expected.
Undefined == -1

None == <<>>
Some(x) == <<x>>
IsSome(o) == Len(o) = 1
TheOne(o) == o[1]

Min(a, b) == IF a < b THEN a ELSE b

\* s[i] of JavaScript: defined iff 0 <= i < s.length.
InRange(s, i) == i >= 0 /\ i < Len(s)
At(s, i) == s[i + 1]

\* a || 0
OrZero(a) == IF a = Undefined THEN 0 ELSE a

\* JavaScript truthiness of a number or undefined (0 and undefined are falsy).
Truthy(a) == a # Undefined /\ a # 0

(***************************************************************************)
(* Bytes.                                                                  *)
(***************************************************************************)
\* The four little-endian bytes of a uint32 (the container's layout).
LE32(n) == << n % 256, (n \div 256) % 256, (n \div 65536) % 256, (n \div 16777216) % 256 >>

\* dv.getUint32(off, true) throws a RangeError unless 4 bytes are there.
CanGetUint32(buf, off) == off >= 0 /\ off + 4 <= Len(buf)
GetUint32(buf, off) ==
    buf[off + 1] + 256 * buf[off + 2] + 65536 * buf[off + 3] + 16777216 * buf[off + 4]

\* ArrayBuffer.prototype.slice(begin, end), begin, end >= 0: both ends are
\* clamped to the buffer's length, and an empty range gives an empty buffer.
Slice(buf, begin, end) == SubSeq(buf, Min(begin, Len(buf)) + 1, Min(end, Len(buf)))

\* The text of the JSON chunk: "{}" stands for the document's text.
JsonText == << 123, 125 >>

\* JSON.parse(new TextDecoder().decode(bytes)): the document the text denotes,
\* or a SyntaxError for any other (cut, empty) text.
JSONParses(bytes) == bytes = JsonText

\* The outcome of a step that may throw.
Ok(v) == [ok |-> TRUE, val |-> v, err |-> ""]
Throw(e) == [ok |-> FALSE, val |-> <<>>, err |-> e]

\* The first exception thrown by a map over a sequence of outcomes, if any;
\* otherwise the sequence of the values.
RECURSIVE FirstThrow(_)
FirstThrow(rs) ==
    IF rs = <<>> THEN ""
    ELSE IF ~Head(rs).ok THEN Head(rs).err ELSE FirstThrow(Tail(rs))

MapOutcome(rs) ==
    IF FirstThrow(rs) # "" THEN Throw(FirstThrow(rs))
    ELSE Ok([i \in 1..Len(rs) |-> rs[i].val])

(***************************************************************************)
(* parse: the header and the chunk loop.                                   *)
(***************************************************************************)
\* The header checks of parse: the outcome carries the declared length.
ParseHeaderNoMagicCheck(buf) ==
    IF ~CanGetUint32(buf, 0) THEN Throw("RangeError")
    ELSE IF ~CanGetUint32(buf, 4) THEN Throw("RangeError")
    ELSE IF GetUint32(buf, 4) # GLB_VERSION THEN Throw("Only glTF 2.0 supported")
    ELSE IF ~CanGetUint32(buf, 8) THEN Throw("RangeError")
    ELSE Ok(GetUint32(buf, 8))

ParseHeader(buf) ==
    IF ~CanGetUint32(buf, 0) THEN Throw("RangeError")
    ELSE IF GetUint32(buf, 0) # GLB_MAGIC THEN Throw("Not a GLB file")
    ELSE IF ~CanGetUint32(buf, 4) THEN Throw("RangeError")
    ELSE IF GetUint32(buf, 4) # GLB_VERSION THEN Throw("Only glTF 2.0 supported")
    ELSE IF ~CanGetUint32(buf, 8) THEN Throw("RangeError")
    ELSE Ok(GetUint32(buf, 8))

\* One iteration of the chunk loop from cursor off, with the JSON document
\* js and the BIN payload bn found so far; doc is what the JSON text denotes.
ChunkStepNoHeaderAdvance(buf, off, js, bn, doc) ==
    IF ~CanGetUint32(buf, off) THEN Throw("RangeError")
    ELSE IF ~CanGetUint32(buf, off + 4) THEN Throw("RangeError")
    ELSE LET chunkLen == GetUint32(buf, off)
             chunkType == GetUint32(buf, off + 4)
             chunkData == Slice(buf, off + 8, off + 8 + chunkLen)
             next == off + chunkLen
         IN  IF chunkType = CHUNK_JSON
             THEN IF JSONParses(chunkData)
                  THEN Ok([offset |-> next, json |-> Some(doc), bin |-> bn])
                  ELSE Throw("SyntaxError")
             ELSE IF chunkType = CHUNK_BIN
             THEN Ok([offset |-> next, json |-> js, bin |-> Some(chunkData)])
             ELSE Ok([offset |-> next, json |-> js, bin |-> bn])

ChunkStep(buf, off, js, bn, doc) ==
    IF ~CanGetUint32(buf, off) THEN Throw("RangeError")
    ELSE IF ~CanGetUint32(buf, off + 4) THEN Throw("RangeError")
    ELSE LET chunkLen == GetUint32(buf, off)
             chunkType == GetUint32(buf, off + 4)
             chunkData == Slice(buf, off + 8, off + 8 + chunkLen)
             next == off + 8 + chunkLen
         IN  IF chunkType = CHUNK_JSON
             THEN IF JSONParses(chunkData)
                  THEN Ok([offset |-> next, json |-> Some(doc), bin |-> bn])
                  ELSE Throw("SyntaxError")
             ELSE IF chunkType = CHUNK_BIN
             THEN Ok([offset |-> next, json |-> js, bin |-> Some(chunkData)])
             ELSE Ok([offset |-> next, json |-> js, bin |-> bn])

\* The whole chunk loop, while(offset < limit), followed by the check for the
\* JSON chunk: the JSON document and BIN payload it ends with, or what it throws.
RECURSIVE ChunkLoop(_, _, _, _, _, _)
ChunkLoop(buf, off, limit, js, bn, doc) ==
    IF off < limit
    THEN LET r == ChunkStep(buf, off, js, bn, doc)
         IN  IF r.ok THEN ChunkLoop(buf, r.val.offset, limit, r.val.json, r.val.bin, doc)
             ELSE r
    ELSE IF ~IsSome(js) THEN Throw("Missing JSON chunk")
    ELSE Ok([json |-> js, bin |-> bn])

(***************************************************************************)
(* _buildBuffers and _buildAccessors.                                      *)
(***************************************************************************)
\* json.buffers is modelled by the number of its descriptors.
BuildBuffers(doc, bn) ==
    MapOutcome([i \in 1..doc.buffers |->
        IF i = 1 /\ IsSome(bn) THEN Ok(TheOne(bn))
        ELSE Throw("Only single BIN buffer supported in this minimal loader")])

\* A view is the slice of its buffer; a view of a buffer that does not exist
\* is a TypeError (undefined.slice).
BuildView(v, buffers) ==
    IF ~InRange(buffers, v.buffer) THEN Throw("TypeError")
    ELSE LET buffer == At(buffers, v.buffer)
         IN  Ok(Slice(buffer, OrZero(v.byteOffset),
                      OrZero(v.byteOffset) + OrZero(v.byteLength)))

BuildViews(doc, buffers) ==
    MapOutcome([i \in 1..Len(doc.bufferViews) |-> BuildView(doc.bufferViews[i], buffers)])

\* compTypeMap[componentType].BYTES_PER_ELEMENT, 0 for a code not in the map.
BytesPerElement(componentType) ==
    CASE componentType = 5120 -> 1
      [] componentType = 5121 -> 1
      [] componentType = 5122 -> 2
      [] componentType = 5123 -> 2
      [] componentType = 5125 -> 4
      [] componentType = 5126 -> 4
      [] OTHER -> 0

\* typeSizeMap[type], 0 for a tag not in the map.
TypeSize(type) ==
    CASE type = "SCALAR" -> 1
      [] type = "VEC2" -> 2
      [] type = "VEC3" -> 3
      [] type = "VEC4" -> 4
      [] type = "MAT4" -> 16
      [] type = "MAT3" -> 9
      [] type = "MAT2" -> 4
      [] OTHER -> 0

\* new Ctor(buffer, byteOffset, length) on an ArrayBuffer of bufLen bytes: a
\* RangeError unless the offset is a multiple of the element size and the
\* elements lie inside the buffer.  The typed array is modelled by the
\* window of the buffer it covers.
TypedArrayUnchecked(bufLen, bytes, offset, length) ==
    Ok([byteOffset |-> offset, length |-> length, byteLength |-> length * bytes])

TypedArray(bufLen, bytes, offset, length) ==
    IF offset % bytes # 0 THEN Throw("RangeError")
    ELSE IF offset + length * bytes > bufLen THEN Throw("RangeError")
    ELSE Ok([byteOffset |-> offset, length |-> length, byteLength |-> length * bytes])

BuildAccessor(acc, views) ==
    LET bytesPerComp == BytesPerElement(acc.componentType)
        numComp == TypeSize(acc.type)
        offset == OrZero(acc.byteOffset)
        length == acc.count * numComp
    IN  IF bytesPerComp = 0 THEN Throw("Unsupported componentType")
        ELSE IF numComp = 0 THEN Throw("Unsupported type")
        ELSE LET arr == IF InRange(views, acc.bufferView)
                        THEN TypedArray(Len(At(views, acc.bufferView)), bytesPerComp, offset, length)
                        \* new Ctor(undefined, ...) is an empty array
                        ELSE Ok([byteOffset |-> 0, length |-> 0, byteLength |-> 0])
             IN  IF ~arr.ok THEN arr
                 ELSE Ok([array |-> arr.val, itemSize |-> numComp,
                          componentType |-> acc.componentType,
                          count |-> acc.count, type |-> acc.type])

BuildAccessors(doc, buffers) ==
    LET views == BuildViews(doc, buffers)
    IN  IF ~views.ok THEN views
        ELSE LET accs == MapOutcome([i \in 1..Len(doc.accessors) |->
                             BuildAccessor(doc.accessors[i], views.val)])
             IN  IF ~accs.ok THEN accs
                 ELSE Ok([views |-> views.val, accessors |-> accs.val])


(***************************************************************************)
(* _buildMesh.                                                             *)
(***************************************************************************)
\* A material descriptor is [pbr, baseColorFactor, alphaMode]: pbr says
\* whether pbrMetallicRoughness is there, baseColorFactor is the array (in
\* tenths, <<>> when it is absent), alphaMode the string.  The options
\* resolved for a primitive are [transparent, opacity], opacity in tenths and
\* Undefined when it is not set.
DefaultMatOptions == [transparent |-> FALSE, opacity |-> Undefined]

\* if(p.baseColorFactor[3] != null && p.baseColorFactor[3] < 1) { ... }
AlphaFromFactor(mdef, opts) ==
    IF mdef.pbr /\ Len(mdef.baseColorFactor) >= 4 /\ mdef.baseColorFactor[4] < OPAQUE_ALPHA
    THEN [transparent |-> TRUE, opacity |-> mdef.baseColorFactor[4]]
    ELSE opts

\* if(mdef.alphaMode === 'BLEND') { ... }
BlendFallbackClobbers(mdef, opts) ==
    IF mdef.alphaMode = "BLEND"
    THEN [transparent |-> TRUE, opacity |-> BLEND_OPACITY]
    ELSE opts

BlendFallback(mdef, opts) ==
    IF mdef.alphaMode = "BLEND"
    THEN [transparent |-> TRUE,
          opacity |-> IF opts.opacity = Undefined THEN BLEND_OPACITY ELSE opts.opacity]
    ELSE opts

MatOptions(doc, prim) ==
    IF prim.material # Undefined /\ InRange(doc.materials, prim.material)
    THEN LET mdef == At(doc.materials, prim.material)
         IN  BlendFallback(mdef, AlphaFromFactor(mdef, DefaultMatOptions))
    ELSE DefaultMatOptions

\* if(prim.mode && prim.mode !== 4) return;
ModeSkipped(prim) == Truthy(prim.mode) /\ prim.mode # MODE_TRIANGLES

\* if(!prim.attributes || prim.attributes.POSITION == null) return;
PositionMissing(prim) == prim.POSITION = Undefined

\* The meshes a group gets from the primitives prims[from..], in order; idx
\* is the primitive's 0-based index.  accessors[POSITION].array of an
\* accessor that does not exist is a TypeError.
RECURSIVE BuildPrimitives(_, _, _, _)
BuildPrimitives(doc, prims, from, accessors) ==
    IF from > Len(prims) THEN Ok(<<>>)
    ELSE LET prim == prims[from]
             rest == BuildPrimitives(doc, prims, from + 1, accessors)
         IN  IF ModeSkipped(prim) \/ PositionMissing(prim) THEN rest
             ELSE IF ~InRange(accessors, prim.POSITION) THEN Throw("TypeError")
             ELSE IF ~rest.ok THEN rest
             ELSE Ok(<< [idx |-> from - 1, position |-> prim.POSITION,
                         material |-> MatOptions(doc, prim)] >> \o rest.val)

BuildMesh(doc, meshDef, accessors) == BuildPrimitives(doc, meshDef, 1, accessors)

BuildMeshes(doc, accessors) ==
    MapOutcome([i \in 1..Len(doc.meshes) |-> BuildMesh(doc, doc.meshes[i], accessors)])

(***************************************************************************)
(* _buildNode, the linking of children and the scene root.                 *)
(*                                                                         *)
(* objs is the children list of every node object, objs[i + 1] that of     *)
(* node i; an entry is [kind, id], a node or the clone of a mesh group.    *)
(***************************************************************************)
NodeEntry(id) == [kind |-> "node", id |-> id]
MeshEntry(id) == [kind |-> "mesh", id |-> id]

\* meshes[nodeDef.mesh].clone() of a mesh that does not exist is a TypeError.
BuildNode(nodeDef, meshes) ==
    IF nodeDef.mesh = Undefined THEN Ok(<<>>)
    ELSE IF ~InRange(meshes, nodeDef.mesh) THEN Throw("TypeError")
    ELSE Ok(<< MeshEntry(nodeDef.mesh) >>)

BuildNodes(doc, meshes) ==
    MapOutcome([i \in 1..Len(doc.nodes) |-> BuildNode(doc.nodes[i], meshes)])

RECURSIVE Without(_, _)
Without(list, e) ==
    IF list = <<>> THEN <<>>
    ELSE IF Head(list) = e THEN Without(Tail(list), e)
    ELSE << Head(list) >> \o Without(Tail(list), e)

\* THREE.Object3D.add: an object added to itself is refused; otherwise the
\* object leaves the parent it has and is pushed onto the new parent's
\* children.  g is [objs, root]: the nodes' children and those of the scene
\* root; parent is a node's index or "root".
Detach(g, e) ==
    [objs |-> [i \in 1..Len(g.objs) |-> Without(g.objs[i], e)],
     root |-> Without(g.root, e)]

Object3DAdd(g, parent, child) ==
    IF parent = child THEN g
    ELSE LET d == Detach(g, NodeEntry(child))
         IN  [objs |-> [i \in 1..Len(d.objs) |->
                          IF i = parent + 1 THEN d.objs[i] \o << NodeEntry(child) >>
                          ELSE d.objs[i]],
              root |-> d.root]

RootAdd(g, child) ==
    LET d == Detach(g, NodeEntry(child))
    IN  [objs |-> d.objs, root |-> d.root \o << NodeEntry(child) >>]

\* n.children.forEach(cid => { if(nodes[cid]) nodes[i].add(nodes[cid]); })
RECURSIVE LinkNode(_, _, _)
LinkNode(g, i, cids) ==
    IF cids = <<>> THEN g
    ELSE LinkNode(IF InRange(g.objs, Head(cids)) THEN Object3DAdd(g, i, Head(cids)) ELSE g,
                  i, Tail(cids))

\* (json.nodes||[]).forEach((n, i) => ...), from node i on.
RECURSIVE LinkChildren(_, _, _)
LinkChildren(doc, g, i) ==
    IF i >= Len(doc.nodes) THEN g
    ELSE LinkChildren(doc, LinkNode(g, i, At(doc.nodes, i).children), i + 1)

\* json.scenes && json.scenes[json.scene || 0]
HasSceneDef(doc) == InRange(doc.scenes, OrZero(doc.scene))
SceneDef(doc) == At(doc.scenes, OrZero(doc.scene))

\* sceneDef.nodes.forEach(id => { if(nodes[id]) scene.add(nodes[id]); })
AttachFirstOnly(g, ids) ==
    IF ids = <<>> THEN g
    ELSE IF InRange(g.objs, Head(ids)) THEN RootAdd(g, Head(ids)) ELSE g

RECURSIVE AttachToRoot(_, _)
AttachToRoot(g, ids) ==
    IF ids = <<>> THEN g
    ELSE AttachToRoot(IF InRange(g.objs, Head(ids)) THEN RootAdd(g, Head(ids)) ELSE g,
                      Tail(ids))

BuildSceneRoot(doc, g) ==
    IF HasSceneDef(doc) THEN AttachToRoot(g, SceneDef(doc)) ELSE g

(***************************************************************************)
(* The inputs: containers and the documents their JSON text denotes.       *)
(***************************************************************************)
SeqsUpTo(S, n) == UNION { [1..k -> S] : k \in 0..n }

RECURSIVE Concat(_)
Concat(ss) == IF ss = <<>> THEN <<>> ELSE Head(ss) \o Concat(Tail(ss))

Prefix(buf, n) == SubSeq(buf, 1, Min(n, Len(buf)))

\* The container's layout: a 12-byte header, then chunks of
\* length, type tag and payload.
HeaderBytes(magic, version, declared) == LE32(magic) \o LE32(version) \o LE32(declared)
ChunkBytes(type, payload) == LE32(Len(payload)) \o LE32(type) \o payload

BinPayload == [i \in 1..BinLen |-> i]
JsonChunk == ChunkBytes(CHUNK_JSON, JsonText)
BinChunk == ChunkBytes(CHUNK_BIN, BinPayload)
\* A chunk of a type the loader does not know ('SKIP'), with no payload.
SkipChunk == ChunkBytes(1346980691, <<>>)
\* A chunk that declares one byte of payload and has none: what follows it is
\* read from the middle of the next chunk's header.
ShortChunk == LE32(1) \o LE32(1346980691)

\* A well-formed container: the JSON chunk, then the BIN chunk if there is one.
GoodContainer(withBin) ==
    LET body == IF withBin THEN JsonChunk \o BinChunk ELSE JsonChunk
    IN  HeaderBytes(GLB_MAGIC, GLB_VERSION, GLB_HEADER_BYTES + Len(body)) \o body

\* Containers of up to MaxChunks chunks, cut after any number of bytes, whose
\* header declares the actual length or another one.
ChunkLists == SeqsUpTo({JsonChunk, BinChunk, SkipChunk, ShortChunk}, MaxChunks)

DeclaredLengths(actual) ==
    {actual, actual + 4, GLB_HEADER_BYTES, GLB_HEADER_BYTES + 2, GLB_HEADER_BYTES + 12}

ChunkedContainers ==
    UNION { UNION { { HeaderBytes(GLB_MAGIC, GLB_VERSION, declared) \o Prefix(Concat(cl), keep)
                      : declared \in DeclaredLengths(GLB_HEADER_BYTES + keep) }
                    : keep \in 0..Len(Concat(cl)) }
            : cl \in ChunkLists }

\* Containers with another magic or version, and buffers shorter than a header.
BadHeaderContainers ==
    { HeaderBytes(magic, version, Len(GoodContainer(TRUE))) \o JsonChunk \o BinChunk
      : magic \in {GLB_MAGIC, GLB_MAGIC + 1, 0}, version \in {1, GLB_VERSION, 3} }
    \cup { Prefix(GoodContainer(TRUE), n) : n \in 0..GLB_HEADER_BYTES }

EmptyDoc ==
    [buffers |-> 0, bufferViews |-> <<>>, accessors |-> <<>>, materials |-> <<>>,
     meshes |-> <<>>, nodes |-> <<>>, scenes |-> <<>>, scene |-> Undefined]

Leaf == [mesh |-> Undefined, children |-> <<>>]

\* A document with one node in its scene.
SimpleDoc == [EmptyDoc EXCEPT !.nodes = << Leaf >>, !.scenes = << << 0 >> >>]

\* Node graphs: up to MaxNodes nodes with at most one child index each, and a
\* scene listing up to MaxSceneRefs node indices; the index n is out of range.
SceneDocs ==
    UNION { { [EmptyDoc EXCEPT !.nodes = [i \in 1..n |-> [mesh |-> Undefined, children |-> cs[i]]],
                               !.scenes = << sc >>]
              : cs \in [1..n -> {<<>>} \cup { << c >> : c \in 0..n }],
                sc \in SeqsUpTo(0..n, MaxSceneRefs) }
            : n \in 0..MaxNodes }

\* The choice of the scene: json.scenes absent or of one or two scenes,
\* json.scene absent, 0 or 1.
SceneChoiceDocs ==
    { [EmptyDoc EXCEPT !.nodes = << Leaf, Leaf >>, !.scenes = scs, !.scene = sel]
      : scs \in { <<>>, << << 0 >> >>, << << 0 >>, << 1, 0 >> >> },
        sel \in {Undefined, 0, 1} }

\* One buffer, one view of the whole BIN payload, one accessor of three
\* uint16 over it.
GeometryDoc ==
    [EmptyDoc EXCEPT !.buffers = 1,
                     !.bufferViews = << [buffer |-> 0, byteOffset |-> Undefined, byteLength |-> BinLen] >>,
                     !.accessors = << [bufferView |-> 0, byteOffset |-> Undefined,
                                       componentType |-> 5123, type |-> "VEC3", count |-> 1] >>]

\* A mesh of up to MaxPrims primitives of every mode, with POSITION or not.
ModeDocs ==
    { [GeometryDoc EXCEPT !.meshes = << prims >>]
      : prims \in SeqsUpTo([mode : {Undefined} \cup 0..6, POSITION : {Undefined, 0},
                            material : {Undefined}], MaxPrims) }

\* A node that uses a mesh (1 does not exist), and a primitive whose POSITION
\* accessor does not exist.
MeshUseDocs ==
    { [GeometryDoc EXCEPT !.meshes = << << [mode |-> MODE_TRIANGLES, POSITION |-> pos, material |-> Undefined] >> >>,
                          !.nodes = << [mesh |-> m, children |-> <<>>] >>,
                          !.scenes = << << 0 >> >>]
      : pos \in {0, 1}, m \in {Undefined, 0, 1} }

Materials ==
    { [pbr |-> FALSE, baseColorFactor |-> <<>>, alphaMode |-> am] : am \in {"", "OPAQUE", "BLEND"} }
    \cup { [pbr |-> TRUE, baseColorFactor |-> f, alphaMode |-> am]
           : f \in { <<>>, << 10, 0, 0 >>, << 10, 0, 0, 0 >>, << 10, 0, 0, 5 >>,
                     << 10, 0, 0, OPAQUE_ALPHA >> },
             am \in {"", "OPAQUE", "BLEND"} }

MaterialDocs ==
    { [GeometryDoc EXCEPT !.materials = << mat >>,
                          !.meshes = << << [mode |-> Undefined, POSITION |-> 0, material |-> m] >> >>]
      : mat \in Materials, m \in {Undefined, 0, 1} }

\* Views and accessors inside and outside the BIN payload.
AccessorDocs ==
    { [EmptyDoc EXCEPT !.buffers = 1, !.bufferViews = vs, !.accessors = as]
      : vs \in SeqsUpTo([buffer : {0, 1}, byteOffset : {Undefined, 4},
                         byteLength : {4, BinLen, BinLen + 4}], 1),
        as \in SeqsUpTo([bufferView : {0, 1}, byteOffset : {Undefined, 2, 4},
                         componentType : {5121, 5123, 5126, 5124},
                         type : {"SCALAR", "VEC2", "VEC3", "BAD"},
                         count : 0..MaxCount], 1) }

BufferDocs == { [EmptyDoc EXCEPT !.buffers = n] : n \in 0..2 }

\* Two accessors over one view, each inside it or past its end, and two views
\* of the one buffer, each inside it or past its end.
PairDocs ==
    { [GeometryDoc EXCEPT !.accessors = [i \in 1..2 |->
          [bufferView |-> 0, byteOffset |-> Undefined, componentType |-> 5123,
           type |-> "VEC2", count |-> cs[i]]]]
      : cs \in [1..2 -> {1, MaxCount + 1}] }
    \cup { [EmptyDoc EXCEPT !.buffers = 1, !.bufferViews = [i \in 1..2 |->
          [buffer |-> 0, byteOffset |-> 4, byteLength |-> ls[i]]]]
      : ls \in [1..2 -> {4, BinLen}] }

\* Containers of every framing, all of the same simple document.
ContainerInputs ==
    { [buffer |-> b, document |-> SimpleDoc] : b \in ChunkedContainers \cup BadHeaderContainers }

Inputs ==
    ContainerInputs
    \cup { [buffer |-> GoodContainer(TRUE), document |-> d]
           : d \in SceneDocs \cup SceneChoiceDocs \cup ModeDocs \cup MeshUseDocs
                   \cup MaterialDocs \cup AccessorDocs \cup PairDocs }
    \cup { [buffer |-> GoodContainer(withBin), document |-> d]
           : withBin \in BOOLEAN, d \in BufferDocs \cup {SimpleDoc} }

(***************************************************************************)
(* The state: one load(url, onLoad, onProgress, onError).                  *)
(***************************************************************************)
VARIABLES
    pc,           \* where load / parse stands
    arrayBuffer,  \* the bytes fetched
    document,     \* the document the JSON chunk's text denotes
    length,       \* parse: the declared length
    offset,       \* parse: the cursor
    json,         \* parse: the JSON document found (None: null)
    bin,          \* parse: the BIN payload found (None: null)
    buffers,      \* _buildScene: the buffers
    views,        \* _buildAccessors: the buffer views
    accessors,    \* _buildScene: the accessors
    meshes,       \* _buildScene: the mesh groups, each the list of its meshes
    graph,        \* the node objects' children and the scene root's
    result,       \* what parse returned (None: nothing)
    error,        \* what was thrown ("": nothing)
    onLoadCalls,  \* calls of onLoad
    onErrorCalls  \* calls of onError (or console.error)

vars == << pc, arrayBuffer, document, length, offset, json, bin, buffers, views,
           accessors, meshes, graph, result, error, onLoadCalls, onErrorCalls >>

parseVars == << length, offset, json, bin >>
sceneVars == << buffers, views, accessors, meshes, graph >>
callVars == << onLoadCalls, onErrorCalls >>

Init ==
    /\ pc = "idle"
    /\ arrayBuffer = <<>>
    /\ document = EmptyDoc
    /\ length = 0
    /\ offset = 0
    /\ json = None
    /\ bin = None
    /\ buffers = <<>>
    /\ views = <<>>
    /\ accessors = <<>>
    /\ meshes = <<>>
    /\ graph = [objs |-> <<>>, root |-> <<>>]
    /\ result = None
    /\ error = ""
    /\ onLoadCalls = 0
    /\ onErrorCalls = 0

\* A throw inside parse: caught in load.
Fail(e) == pc' = "failed" /\ error' = e

\* load: fetch(url) answers with the bytes of some container of the set ins.
LoadFrom(ins) ==
    /\ pc = "idle"
    /\ \E in \in ins :
        /\ arrayBuffer' = in.buffer
        /\ document' = in.document
    /\ pc' = "parse"
    /\ UNCHANGED << parseVars, sceneVars, result, error, callVars >>

Load == LoadFrom(Inputs)

\* The same, for the containers of every framing only.
LoadContainer == LoadFrom(ContainerInputs)

\* load: fetch(url) fails or answers !r.ok.
LoadHttpError ==
    /\ pc = "idle"
    /\ Fail("HTTP")
    /\ UNCHANGED << arrayBuffer, document, parseVars, sceneVars, result, callVars >>

\* parse: the header.
Header ==
    /\ pc = "parse"
    /\ LET r == ParseHeader(arrayBuffer)
       IN  IF r.ok
           THEN /\ length' = r.val
                /\ offset' = GLB_HEADER_BYTES
                /\ pc' = "chunks"
                /\ UNCHANGED error
           ELSE /\ Fail(r.err)
                /\ UNCHANGED << length, offset >>
    /\ UNCHANGED << arrayBuffer, document, json, bin, sceneVars, result, callVars >>

\* parse: one iteration of while(offset < length).
ReadChunk ==
    /\ pc = "chunks"
    /\ offset < length
    /\ LET r == ChunkStep(arrayBuffer, offset, json, bin, document)
       IN  IF r.ok
           THEN /\ offset' = r.val.offset
                /\ json' = r.val.json
                /\ bin' = r.val.bin
                /\ UNCHANGED << pc, error >>
           ELSE /\ Fail(r.err)
                /\ UNCHANGED << offset, json, bin >>
    /\ UNCHANGED << arrayBuffer, document, length, sceneVars, result, callVars >>

\* parse: the loop is over; if(!json) throw.
EndChunks ==
    /\ pc = "chunks"
    /\ ~(offset < length)
    /\ IF IsSome(json)
       THEN pc' = "buffers" /\ UNCHANGED error
       ELSE Fail("Missing JSON chunk")
    /\ UNCHANGED << arrayBuffer, document, parseVars, sceneVars, result, callVars >>

\* _buildScene: _buildBuffers.
DoBuildBuffers ==
    /\ pc = "buffers"
    /\ LET r == BuildBuffers(TheOne(json), bin)
       IN  IF r.ok
           THEN buffers' = r.val /\ pc' = "accessors" /\ UNCHANGED error
           ELSE Fail(r.err) /\ UNCHANGED buffers
    /\ UNCHANGED << arrayBuffer, document, parseVars, views, accessors, meshes, graph,
                    result, callVars >>

\* _buildScene: _buildAccessors.
DoBuildAccessors ==
    /\ pc = "accessors"
    /\ LET r == BuildAccessors(TheOne(json), buffers)
       IN  IF r.ok
           THEN /\ views' = r.val.views
                /\ accessors' = r.val.accessors
                /\ pc' = "meshes"
                /\ UNCHANGED error
           ELSE Fail(r.err) /\ UNCHANGED << views, accessors >>
    /\ UNCHANGED << arrayBuffer, document, parseVars, buffers, meshes, graph, result, callVars >>

\* _buildScene: the meshes (the documents have no images and no textures).
DoBuildMeshes ==
    /\ pc = "meshes"
    /\ LET r == BuildMeshes(TheOne(json), accessors)
       IN  IF r.ok
           THEN meshes' = r.val /\ pc' = "nodes" /\ UNCHANGED error
           ELSE Fail(r.err) /\ UNCHANGED meshes
    /\ UNCHANGED << arrayBuffer, document, parseVars, buffers, views, accessors, graph,
                    result, callVars >>

\* _buildScene: the nodes.
DoBuildNodes ==
    /\ pc = "nodes"
    /\ LET r == BuildNodes(TheOne(json), meshes)
       IN  IF r.ok
           THEN graph' = [objs |-> r.val, root |-> <<>>] /\ pc' = "link" /\ UNCHANGED error
           ELSE Fail(r.err) /\ UNCHANGED graph
    /\ UNCHANGED << arrayBuffer, document, parseVars, buffers, views, accessors, meshes,
                    result, callVars >>

\* _buildScene: link children.
DoLinkChildren ==
    /\ pc = "link"
    /\ graph' = LinkChildren(TheOne(json), graph, 0)
    /\ pc' = "root"
    /\ UNCHANGED << arrayBuffer, document, parseVars, buffers, views, accessors, meshes,
                    result, error, callVars >>

\* _buildScene: the scene root; parse returns { scene, ... }.
DoBuildSceneRoot ==
    /\ pc = "root"
    /\ graph' = BuildSceneRoot(TheOne(json), graph)
    /\ result' = Some([scene |-> graph'.root])
    /\ pc' = "returned"
    /\ UNCHANGED << arrayBuffer, document, parseVars, buffers, views, accessors, meshes,
                    error, callVars >>

\* load: onLoad && onLoad(gltf).
OnLoad ==
    /\ pc = "returned"
    /\ onLoadCalls' = onLoadCalls + 1
    /\ pc' = "loaded"
    /\ UNCHANGED << arrayBuffer, document, parseVars, sceneVars, result, error, onErrorCalls >>

\* load: catch(e) { if(onError) onError(e); else console.error(e); }
OnError ==
    /\ pc = "failed"
    /\ onErrorCalls' = onErrorCalls + 1
    /\ pc' = "reported"
    /\ UNCHANGED << arrayBuffer, document, parseVars, sceneVars, result, error, onLoadCalls >>

\* The steps of parse and the callbacks of load.
Run ==
    \/ Header
    \/ ReadChunk
    \/ EndChunks
    \/ DoBuildBuffers
    \/ DoBuildAccessors
    \/ DoBuildMeshes
    \/ DoBuildNodes
    \/ DoLinkChildren
    \/ DoBuildSceneRoot
    \/ OnLoad
    \/ OnError

Next == Load \/ LoadHttpError \/ Run

Spec == Init /\ [][Next]_vars

\* The loader over the containers of every framing.  parse is synchronous
\* and runs to its end, and the promise's callbacks are called: a step that
\* can be taken is taken.
ContainerNext == LoadContainer \/ LoadHttpError \/ Run

ContainerSpec == Init /\ [][ContainerNext]_vars /\ WF_vars(ContainerNext)

(***************************************************************************)
(* Properties.                                                             *)
(***************************************************************************)
Range(s) == { s[i] : i \in 1..Len(s) }

ParseEnded == pc \in {"failed", "reported", "returned", "loaded"}
ViewsBuilt == pc \in {"meshes", "nodes", "link", "root", "returned", "loaded"}
MeshesBuilt == pc \in {"nodes", "link", "root", "returned", "loaded"}

\* The chunks of a container read by its layout from cursor off to the end
\* of the buffer, each as [type, payload]; Undefined stands for a chunk that
\* does not fit the buffer.
RECURSIVE ChunksByLayout(_, _)
ChunksByLayout(buf, off) ==
    IF off >= Len(buf) THEN <<>>
    ELSE IF off + 8 > Len(buf) \/ off + 8 + GetUint32(buf, off) > Len(buf)
    THEN << [type |-> Undefined, payload |-> <<>>] >>
    ELSE << [type |-> GetUint32(buf, off + 4),
             payload |-> SubSeq(buf, off + 9, off + 8 + GetUint32(buf, off))] >>
         \o ChunksByLayout(buf, off + 8 + GetUint32(buf, off))

ChunksOfType(buf, type) ==
    { i \in 1..Len(ChunksByLayout(buf, GLB_HEADER_BYTES)) :
        ChunksByLayout(buf, GLB_HEADER_BYTES)[i].type = type }

\* A valid container: a correct 12-byte header that declares the actual
\* length, whole chunks, exactly one JSON chunk (of well-formed text) and at
\* most one BIN chunk.
ValidContainer(buf) ==
    /\ Len(buf) >= GLB_HEADER_BYTES
    /\ GetUint32(buf, 0) = GLB_MAGIC
    /\ GetUint32(buf, 4) = GLB_VERSION
    /\ GetUint32(buf, 8) = Len(buf)
    /\ ChunksOfType(buf, Undefined) = {}
    /\ Cardinality(ChunksOfType(buf, CHUNK_JSON)) = 1
    /\ \A i \in ChunksOfType(buf, CHUNK_JSON) :
          ChunksByLayout(buf, GLB_HEADER_BYTES)[i].payload = JsonText
    /\ Cardinality(ChunksOfType(buf, CHUNK_BIN)) <= 1

\* The length of the BIN payload of a valid container (0 without one).
BinLength(buf) ==
    IF ChunksOfType(buf, CHUNK_BIN) = {} THEN 0
    ELSE Len(ChunksByLayout(buf, GLB_HEADER_BYTES)[CHOOSE i \in ChunksOfType(buf, CHUNK_BIN) : TRUE].payload)

\* A document whose references all resolve: at most the one BIN buffer, views
\* inside it, accessors of known types inside their views, and mesh, node and
\* scene indices in range.
ValidDocument(doc, buf) ==
    /\ doc.buffers <= 1
    /\ doc.buffers = 1 => ChunksOfType(buf, CHUNK_BIN) # {}
    /\ \A i \in 1..Len(doc.bufferViews) :
          LET v == doc.bufferViews[i]
          IN  /\ v.buffer >= 0 /\ v.buffer < doc.buffers
              /\ OrZero(v.byteOffset) + OrZero(v.byteLength) <= BinLength(buf)
    /\ \A i \in 1..Len(doc.accessors) :
          LET a == doc.accessors[i]
          IN  /\ BytesPerElement(a.componentType) # 0
              /\ TypeSize(a.type) # 0
              /\ InRange(doc.bufferViews, a.bufferView)
              /\ OrZero(a.byteOffset) % BytesPerElement(a.componentType) = 0
              /\ OrZero(a.byteOffset) + a.count * TypeSize(a.type) * BytesPerElement(a.componentType)
                     <= OrZero(At(doc.bufferViews, a.bufferView).byteLength)
    /\ \A m \in 1..Len(doc.meshes) : \A k \in 1..Len(doc.meshes[m]) :
          doc.meshes[m][k].POSITION = Undefined \/ InRange(doc.accessors, doc.meshes[m][k].POSITION)
    /\ \A i \in 1..Len(doc.nodes) :
          /\ doc.nodes[i].mesh = Undefined \/ InRange(doc.meshes, doc.nodes[i].mesh)
          /\ \A c \in Range(doc.nodes[i].children) : InRange(doc.nodes, c)
    /\ HasSceneDef(doc)
    /\ \A id \in Range(SceneDef(doc)) : InRange(doc.nodes, id)

ValidInput == ValidContainer(arrayBuffer) /\ ValidDocument(document, arrayBuffer)

\* C1, as amended: for every valid container, parse succeeds and the scene
\* root it returns has as many direct children as there are distinct node
\* indices in the selected scene descriptor's list: a node listed twice is
\* attached once, and a listed node that is also a child of another node is
\* moved to the root and counted.
C1_RootHasTheDistinctSceneNodes ==
    (ParseEnded /\ ValidInput)
        => /\ pc \in {"returned", "loaded"}
           /\ IsSome(result)
           /\ Len(TheOne(result).scene) = Cardinality(Range(SceneDef(document)))

\* A valid container whose scene lists a node twice and lists a node that is
\* also another node's child has been loaded.
C1_Witness ==
    /\ pc = "loaded"
    /\ ValidInput
    /\ Len(SceneDef(document)) > Cardinality(Range(SceneDef(document)))
    /\ \E i \in 1..Len(document.nodes) : \E c \in Range(document.nodes[i].children) :
          c # i - 1 /\ c \in Range(SceneDef(document))

\* C1, as claimed: the scene root of a valid container has as many direct
\* children as node indices are listed in the selected scene descriptor.
C1_RootHasEveryListedIndex ==
    (ParseEnded /\ ValidInput)
        => /\ pc \in {"returned", "loaded"}
           /\ IsSome(result)
           /\ Len(TheOne(result).scene) = Len(SceneDef(document))

\* An index of a child list or of the selected scene's list that is out of
\* range of the node array.
HasDanglingReference(doc) ==
    \/ \E i \in 1..Len(doc.nodes) : \E c \in Range(doc.nodes[i].children) : ~InRange(doc.nodes, c)
    \/ HasSceneDef(doc) /\ \E id \in Range(SceneDef(doc)) : ~InRange(doc.nodes, id)

\* C2: a document with a child or scene node index out of range of the node
\* array never yields a scene: the decode fails.
C2_DanglingReferenceFails ==
    HasDanglingReference(document) => (result = None /\ pc # "returned" /\ pc # "loaded")

\* C3: the group built for a mesh has exactly one child per primitive whose
\* mode is absent or 4 and whose POSITION is present; primitives of every
\* other mode (0, 1, 2, 3, 5, 6) are skipped.
C3_OnlyTriangleListsAreBuilt ==
    MeshesBuilt =>
        \A m \in 1..Len(meshes) :
            Len(meshes[m]) =
                Cardinality({ k \in 1..Len(document.meshes[m]) :
                    /\ document.meshes[m][k].mode \in {Undefined, MODE_TRIANGLES}
                    /\ document.meshes[m][k].POSITION # Undefined })

\* The alpha of a material's baseColorFactor, when it is present and below 1.
HasAlphaBelowOne(mdef) ==
    mdef.pbr /\ Len(mdef.baseColorFactor) >= 4 /\ mdef.baseColorFactor[4] < OPAQUE_ALPHA

\* C4: for a primitive whose material has alphaMode "BLEND", transparency is
\* enabled and the opacity is the baseColorFactor alpha when that alpha is
\* present and below 1, and 0.9 otherwise.
C4_FactorAlphaSurvivesBlend ==
    MeshesBuilt =>
        \A m \in 1..Len(meshes) : \A k \in 1..Len(meshes[m]) :
            LET prim == At(document.meshes[m], meshes[m][k].idx)
                opts == meshes[m][k].material
            IN  (prim.material # Undefined /\ InRange(document.materials, prim.material)
                 /\ At(document.materials, prim.material).alphaMode = "BLEND")
                => /\ opts.transparent
                   /\ opts.opacity =
                        IF HasAlphaBelowOne(At(document.materials, prim.material))
                        THEN At(document.materials, prim.material).baseColorFactor[4]
                        ELSE BLEND_OPACITY

\* A primitive with a "BLEND" material of alpha 0.5 has been built with
\* opacity 0.5.
C4_Witness ==
    /\ pc = "loaded"
    /\ \E m \in 1..Len(meshes) : \E k \in 1..Len(meshes[m]) :
          LET prim == At(document.meshes[m], meshes[m][k].idx)
          IN  /\ prim.material # Undefined /\ InRange(document.materials, prim.material)
              /\ At(document.materials, prim.material).alphaMode = "BLEND"
              /\ HasAlphaBelowOne(At(document.materials, prim.material))
              /\ meshes[m][k].material = [transparent |-> TRUE, opacity |-> 5]

HasBadMagic(buf) == CanGetUint32(buf, 0) /\ GetUint32(buf, 0) # GLB_MAGIC

\* C5: a buffer whose magic is not 0x46546C67 makes parse throw: parse
\* returns nothing, no later stage runs (no chunk is read, nothing is
\* built) and load never calls onLoad.
C5_BadMagicAborts ==
    (pc # "idle" /\ HasBadMagic(arrayBuffer))
        => /\ pc \in {"parse", "failed", "reported"}
           /\ pc # "parse" => error = "Not a GLB file"
           /\ result = None
           /\ onLoadCalls = 0
           /\ offset = 0 /\ json = None /\ bin = None
           /\ buffers = <<>> /\ views = <<>> /\ accessors = <<>> /\ meshes = <<>>
           /\ graph = [objs |-> <<>>, root |-> <<>>]

\* A buffer of another magic has been refused and reported to onError.
C5_Witness ==
    /\ pc = "reported"
    /\ HasBadMagic(arrayBuffer)
    /\ Len(arrayBuffer) > GLB_HEADER_BYTES
    /\ onErrorCalls = 1

\* The bytes an accessor covers run past the declared length of its view.
ExceedsView(doc, a) ==
    /\ InRange(doc.bufferViews, a.bufferView)
    /\ OrZero(a.byteOffset) + a.count * TypeSize(a.type) * BytesPerElement(a.componentType)
           > OrZero(At(doc.bufferViews, a.bufferView).byteLength)

\* C6: when an accessor's byte range, byteOffset + count * componentCount *
\* componentWidth, exceeds its bufferView's byteLength, the decode fails and
\* no typed sequence is produced.
C6_AccessorPastViewFails ==
    (\E i \in 1..Len(document.accessors) : ExceedsView(document, document.accessors[i]))
        => /\ accessors = <<>>
           /\ result = None
           /\ pc \in {"parse", "chunks", "buffers", "accessors", "failed", "reported"}

\* An accessor of a known type at an aligned offset, over a view that lies
\* inside the BIN payload, ran past its view and the decode failed on it.
C6_Witness ==
    /\ pc = "reported"
    /\ error = "RangeError"
    /\ ValidContainer(arrayBuffer)
    /\ \E i \in 1..Len(document.accessors) :
          LET a == document.accessors[i]
          IN  /\ ExceedsView(document, a)
              /\ BytesPerElement(a.componentType) # 0
              /\ TypeSize(a.type) # 0
              /\ a.count > 0
              /\ OrZero(a.byteOffset) % BytesPerElement(a.componentType) = 0
              /\ At(document.bufferViews, a.bufferView).buffer = 0
              /\ OrZero(At(document.bufferViews, a.bufferView).byteOffset)
                   + OrZero(At(document.bufferViews, a.bufferView).byteLength) <= BinLength(arrayBuffer)

\* C7: when the chunk header at the cursor extends past the declared length,
\* parse fails there, whether the declared length is the actual length or
\* smaller.
C7_HeaderPastDeclaredLengthFails ==
    [][(pc = "chunks" /\ offset < length /\ offset + 8 > length) => pc' = "failed"]_vars

\* C8: a view is never shorter than its declared byteLength: a bufferView
\* whose range exceeds the payload fails the decode.
C8_ViewIsNeverTruncated ==
    ViewsBuilt =>
        \A i \in 1..Len(views) : Len(views[i]) = OrZero(document.bufferViews[i].byteLength)

\* What the chunk loop gives when it is bounded by the actual buffer length.
ChunksByActualLength ==
    ChunkLoop(arrayBuffer, GLB_HEADER_BYTES, Len(arrayBuffer), None, None, document)

\* parse threw in the chunk loop or on leaving it: a failed read leaves the
\* cursor before the declared length.
FailedInChunkLoop ==
    /\ pc \in {"failed", "reported"}
    /\ ParseHeader(arrayBuffer).ok
    /\ (offset < length \/ error = "Missing JSON chunk")

\* C9: whatever length the header declares, the chunk loop ends as if it had
\* declared the actual length: with the same JSON and BIN chunks, and
\* without a failure that the actual length does not give.
C9_LoopBoundedByActualLength ==
    /\ pc \in {"buffers", "accessors", "meshes", "nodes", "link", "root", "returned", "loaded"}
          => /\ ChunksByActualLength.ok
             /\ ChunksByActualLength.val.json = json
             /\ ChunksByActualLength.val.bin = bin
    /\ FailedInChunkLoop => ~ChunksByActualLength.ok

\* C10: every iteration of the chunk loop moves the cursor on by at least 8
\* bytes, and the loop ends: it reaches the declared length or throws.
C10_ChunkLoopTerminates ==
    /\ [][(pc = "chunks" /\ pc' = "chunks") => offset' >= offset + 8]_vars
    /\ (pc = "chunks") ~> (pc # "chunks")

\* The loop has run to the declared length over a chunk of length zero and
\* of a type the loader does not know.
C10_Witness ==
    /\ pc = "chunks"
    /\ ~(offset < length)
    /\ CanGetUint32(arrayBuffer, GLB_HEADER_BYTES + 4)
    /\ GetUint32(arrayBuffer, GLB_HEADER_BYTES) = 0
    /\ GetUint32(arrayBuffer, GLB_HEADER_BYTES + 4) \notin {CHUNK_JSON, CHUNK_BIN}
    /\ offset >= GLB_HEADER_BYTES + 16

====
